---------------------------- MODULE Spec2Model ----------------------------
(***************************************************************************)
(* A model of the mcp-use MCP server (src/index.ts): the module-load       *)
(* sequence that registers one prompt, five resources and two tools and    *)
(* then listens, and the two tool handlers, run-server and deploy-server,  *)
(* which compose instructional text from their parameters.                 *)
(*                                                                         *)
(* Text is a sequence of tokens: the words of the template literal, split  *)
(* at white space, in order.  An interpolation ${e} inside a word is the   *)
(* concatenation of the word's literal parts with ToString(e).  Glyphs     *)
(* outside ASCII are written by their code point ("U+1F310"), and the     *)
(* grave accent, which a TLA+ string cannot hold, is written ^.            *)
(***************************************************************************)
EXTENDS Integers, Sequences, FiniteSets

VARIABLES
    pc,          \* position in the module's top-level statements
    env,         \* process.env.MCP_URL
    baseUrl,     \* the baseUrl the server was constructed with
    prompts,     \* names registered with server.prompt, in order
    resources,   \* uris registered with server.resource, in order
    tools,       \* names registered with server.tool, in order
    listening,   \* server.listen() has been called
    listens,     \* how many times server.listen() has been called
    first,       \* the first call served, as [tool, args, result, baseUrl]
    latest,      \* the latest call served after it
    between,     \* some call was served between first and latest
    composeIn,   \* a handler applied directly: its kind and parameters
    composeOut   \* ... and what it returned

vars == <<pc, env, baseUrl, prompts, resources, tools, listening, listens,
          first, latest, between, composeIn, composeOut>>

serverVars == <<pc, env, baseUrl, prompts, resources, tools, listening,
                listens, first, latest, between>>

composeVars == <<composeIn, composeOut>>

---------------------------------------------------------------------------
(* JavaScript values, tagged by typeof *)

Undefined == [type |-> "undefined"]

Bool(b) == [type |-> "boolean", b |-> b]

\* The number int + tenths/10 (tenths = 0: an integer).
NumT(int, tenths) == [type |-> "number", int |-> int, tenths |-> tenths]

Num(n) == NumT(n, 0)

Str(s) == [type |-> "string", s |-> s]

\* ToBoolean: what the conditional operator ?: tests.
Truthy(v) ==
    CASE v.type = "undefined" -> FALSE
      [] v.type = "boolean"   -> v.b
      [] v.type = "number"    -> ~(v.int = 0 /\ v.tenths = 0)
      [] v.type = "string"    -> v.s # ""

Digit(d) ==
    CASE d = 0 -> "0" [] d = 1 -> "1" [] d = 2 -> "2" [] d = 3 -> "3"
      [] d = 4 -> "4" [] d = 5 -> "5" [] d = 6 -> "6" [] d = 7 -> "7"
      [] d = 8 -> "8" [] d = 9 -> "9"

RECURSIVE NatToString(_)
NatToString(n) ==
    IF n < 10 THEN Digit(n) ELSE NatToString(n \div 10) \o Digit(n % 10)

IntToString(n) == IF n < 0 THEN "-" \o NatToString(-n) ELSE NatToString(n)

\* ToString: what a template literal's ${...} applies to its value.
ToString(v) ==
    CASE v.type = "undefined" -> "undefined"
      [] v.type = "boolean"   -> IF v.b THEN "true" ELSE "false"
      [] v.type = "number"    ->
            IF v.tenths = 0 THEN IntToString(v.int)
            ELSE IntToString(v.int) \o "." \o Digit(v.tenths)
      [] v.type = "string"    -> v.s

\* A destructuring default, { x = d }: d replaces undefined only.
Default(v, d) == IF v = Undefined THEN d ELSE v

---------------------------------------------------------------------------
(* Results *)

\* text(s), of mcp-use/server: a successful result carrying the text s.
text(s) == [kind |-> "text", text |-> s]

\* A call that ended in the error named.
Thrown(error) == [kind |-> "error", error |-> error]

\* What a caller gets when the arguments do not parse under the tool's schema:
\* the handler is not run.
InvalidParams == Thrown("InvalidParams")

\* Nothing returned yet.
NoResult == [kind |-> "none"]

---------------------------------------------------------------------------
(* Tool 1: run-server *)

\* z.number().optional() ... "Port to run on (default: 3000)"
DefaultPort == 3000

\* Mutant: the fields are not optional.
RunServerSchemaRequired(args) ==
    /\ args.useYarn.type = "boolean"
    /\ args.port.type = "number"

\* The schema of run-server: each field optional, of its type when present.
RunServerSchema(args) ==
    /\ args.useYarn.type \in {"undefined", "boolean"}
    /\ args.port.type \in {"undefined", "number"}

\* Mutant: the two tokens the wrong way round.
RunPackageManagerSwapped(useYarn) == IF Truthy(useYarn) THEN "npm" ELSE "yarn"

\* Mutant: the default applied with ||, so that false becomes true.
RunPackageManagerOrTrue(useYarn) ==
    IF Truthy(useYarn) \/ TRUE THEN "yarn" ELSE "npm"

\* const packageManager = useYarn ? "yarn" : "npm";
RunPackageManager(useYarn) == IF Truthy(useYarn) THEN "yarn" ELSE "npm"

\* The mutants of the template: the template with the port of the Inspector
\* line given apart, and the tunneling section there or not.
RunServerTemplateWith(packageManager, port, inspectorPort, tunneling) ==
       <<"To", "run", "your", "MCP", "server", "locally:">>
    \o <<"**Development", "mode", "(with", "hot", "reload):**">>
    \o <<"^^^bash">>
    \o <<packageManager, "run", "dev">>
    \o <<"^^^">>
    \o <<"**Production", "mode:**">>
    \o <<"^^^bash">>
    \o <<"#", "First", "build">>
    \o <<packageManager, "run", "build">>
    \o <<"#", "Then", "start">>
    \o <<packageManager, "start">>
    \o <<"^^^">>
    \o <<"**With", "custom", "port:**">>
    \o <<"^^^bash">>
    \o <<"PORT=" \o ToString(port), packageManager, "start">>
    \o <<"^^^">>
    \o (IF tunneling
        THEN   <<"**Test", "with", "tunneling", "(before", "deployment):**">>
            \o <<"^^^bash">>
            \o <<"#", "Option", "1:", "Auto-tunnel">>
            \o <<"mcp-use", "start", "--port", ToString(port), "--tunnel">>
            \o <<"#", "Option", "2:", "Separate", "tunnel">>
            \o <<packageManager, "start", "#", "Terminal", "1">>
            \o <<"npx", "@mcp-use/tunnel", ToString(port), "#", "Terminal",
                 "2">>
            \o <<"^^^">>
        ELSE <<>>)
    \o <<"Your", "server", "will", "be", "available", "at:">>
    \o <<"-", "U+1F310", "MCP", "endpoint:",
         "http://localhost:" \o ToString(port) \o "/mcp">>
    \o <<"-", "U+1F50D", "Inspector", "UI:",
         "http://localhost:" \o ToString(inspectorPort) \o "/inspector">>
    \o (IF tunneling
        THEN   <<"-", "U+1F512", "Tunnel", "URL:",
                 "https://[subdomain].local.mcp-use.run/mcp", "(when",
                 "using", "tunnel)">>
            \o <<"**Tunnel", "details:**">>
            \o <<"-", "Expires", "after", "24", "hours">>
            \o <<"-", "Closes", "after", "1", "hour", "of", "inactivity">>
            \o <<"-", "Use", "to", "test", "with", "ChatGPT", "before",
                 "deploying">>
            \o <<"Learn", "more:", "https://mcp-use.com/docs/tunneling">>
        ELSE <<>>)

\* Mutant: the tunneling section is given for the default port only.
RunServerTemplateTunnelOnDefault(packageManager, port) ==
    RunServerTemplateWith(packageManager, port, port, port = Num(DefaultPort))

\* Mutant: the Inspector line keeps the port of the README, 3000.
RunServerTemplateInspector3000(packageManager, port) ==
    RunServerTemplateWith(packageManager, port, Num(DefaultPort), TRUE)

\* The template literal of run-server, by line.
RunServerTemplate(packageManager, port) ==
       <<"To", "run", "your", "MCP", "server", "locally:">>
    \o <<"**Development", "mode", "(with", "hot", "reload):**">>
    \o <<"^^^bash">>
    \o <<packageManager, "run", "dev">>
    \o <<"^^^">>
    \o <<"**Production", "mode:**">>
    \o <<"^^^bash">>
    \o <<"#", "First", "build">>
    \o <<packageManager, "run", "build">>
    \o <<"#", "Then", "start">>
    \o <<packageManager, "start">>
    \o <<"^^^">>
    \o <<"**With", "custom", "port:**">>
    \o <<"^^^bash">>
    \o <<"PORT=" \o ToString(port), packageManager, "start">>
    \o <<"^^^">>
    \o <<"**Test", "with", "tunneling", "(before", "deployment):**">>
    \o <<"^^^bash">>
    \o <<"#", "Option", "1:", "Auto-tunnel">>
    \o <<"mcp-use", "start", "--port", ToString(port), "--tunnel">>
    \o <<"#", "Option", "2:", "Separate", "tunnel">>
    \o <<packageManager, "start", "#", "Terminal", "1">>
    \o <<"npx", "@mcp-use/tunnel", ToString(port), "#", "Terminal", "2">>
    \o <<"^^^">>
    \o <<"Your", "server", "will", "be", "available", "at:">>
    \o <<"-", "U+1F310", "MCP", "endpoint:",
         "http://localhost:" \o ToString(port) \o "/mcp">>
    \o <<"-", "U+1F50D", "Inspector", "UI:",
         "http://localhost:" \o ToString(port) \o "/inspector">>
    \o <<"-", "U+1F512", "Tunnel", "URL:",
         "https://[subdomain].local.mcp-use.run/mcp", "(when", "using",
         "tunnel)">>
    \o <<"**Tunnel", "details:**">>
    \o <<"-", "Expires", "after", "24", "hours">>
    \o <<"-", "Closes", "after", "1", "hour", "of", "inactivity">>
    \o <<"-", "Use", "to", "test", "with", "ChatGPT", "before", "deploying">>
    \o <<"Learn", "more:", "https://mcp-use.com/docs/tunneling">>

\* Mutant: port is not taken from the parameters.
RunServerHandlerPortIgnored(args) ==
    LET useYarn == Default(args.useYarn, Bool(TRUE))
        port == Num(DefaultPort)
        packageManager == RunPackageManager(useYarn)
    IN  text(RunServerTemplate(packageManager, port))

\* Mutant: useYarn defaults to false.
RunServerHandlerNpmDefault(args) ==
    LET useYarn == Default(args.useYarn, Bool(FALSE))
        port == Default(args.port, Num(DefaultPort))
        packageManager == RunPackageManager(useYarn)
    IN  text(RunServerTemplate(packageManager, port))

\* Mutant: the default port is a variable of the module that keeps the port
\* of the call before.
RunServerHandlerLastPort(args) ==
    LET useYarn == Default(args.useYarn, Bool(TRUE))
        lastPort ==
            IF /\ (IF latest # [tool |-> "none"] THEN latest ELSE first).tool
                      = "run-server"
               /\ (IF latest # [tool |-> "none"] THEN latest ELSE first)
                      .args.port.type = "number"
            THEN (IF latest # [tool |-> "none"] THEN latest ELSE first).args.port
            ELSE Num(DefaultPort)
        port == Default(args.port, lastPort)
        packageManager == RunPackageManager(useYarn)
    IN  text(RunServerTemplate(packageManager, port))

\* async ({ useYarn = true, port = 3000 }) => { ... return text(...); }
\* Mutant: the handler also reports the base URL of the server.
RunServerHandlerBaseUrl(args) ==
    LET useYarn == Default(args.useYarn, Bool(TRUE))
        port == Default(args.port, Num(DefaultPort))
        packageManager == RunPackageManager(useYarn)
    IN  text(RunServerTemplate(packageManager, port)
                \o <<"-", "Base", "URL:", baseUrl>>)

RunServerHandler(args) ==
    LET useYarn == Default(args.useYarn, Bool(TRUE))
        port == Default(args.port, Num(DefaultPort))
        packageManager == RunPackageManager(useYarn)
    IN  text(RunServerTemplate(packageManager, port))

---------------------------------------------------------------------------
(* Tool 2: deploy-server *)

\* z.enum(["mcp-use-cloud", "supabase", "other"])
Platforms == {"mcp-use-cloud", "supabase", "other"}

\* The schema of deploy-server.
DeployServerSchema(args) ==
    /\ args.useYarn.type \in {"undefined", "boolean"}
    /\ \/ args.platform.type = "undefined"
       \/ args.platform.type = "string" /\ args.platform.s \in Platforms

\* Mutant: the two tokens the wrong way round.
DeployPackageManagerSwapped(useYarn) ==
    IF Truthy(useYarn) THEN "npm" ELSE "yarn"

\* const packageManager = useYarn ? "yarn" : "npm";
DeployPackageManager(useYarn) == IF Truthy(useYarn) THEN "yarn" ELSE "npm"

\* let instructions = '# Deploy Your MCP Server\n\n';
DeployHeader == <<"#", "Deploy", "Your", "MCP", "Server">>

\* The block appended when platform === "mcp-use-cloud".
McpUseCloudBlock(packageManager) ==
       <<"##", "Deploy", "to", "mcp-use", "Cloud", "(Recommended)">>
    \o <<"**Step", "1:", "Login", "(if", "not", "already", "logged", "in)**">>
    \o <<"^^^bash">>
    \o <<"npx", "mcp-use", "login">>
    \o <<"^^^">>
    \o <<"**Step", "2:", "Deploy**">>
    \o <<"^^^bash">>
    \o <<packageManager, "run", "deploy">>
    \o <<"^^^">>
    \o <<"**If", "deployment", "fails", "with", "authentication", "error:**">>
    \o <<"^^^bash">>
    \o <<"#", "Run", "login", "command">>
    \o <<"npx", "mcp-use", "login">>
    \o <<"#", "Then", "try", "deploy", "again">>
    \o <<packageManager, "run", "deploy">>
    \o <<"^^^">>
    \o <<"**After", "successful", "deployment:**">>
    \o <<"-", "U+2705", "You'll", "receive", "a", "public", "URL", "for",
         "your", "MCP", "server">>
    \o <<"-", "U+2705", "The", "server", "is", "automatically", "scaled",
         "and", "monitored">>
    \o <<"-", "U+2705", "HTTPS", "is", "enabled", "by", "default">>
    \o <<"-", "U+2705", "Zero-downtime", "deployments">>
    \o <<"**Deployment", "URL", "format:**">>
    \o <<"^https://your-server-name.mcp-use.com/mcp^">>
    \o <<"Use", "this", "URL", "to", "connect", "from", "ChatGPT,", "Claude,",
         "or", "other", "MCP", "clients.">>

\* The block appended when platform === "supabase".
SupabaseBlock ==
       <<"##", "Deploy", "to", "Supabase">>
    \o <<"**Step", "1:", "Install", "Supabase", "CLI**">>
    \o <<"^^^bash">>
    \o <<"npm", "install", "-g", "supabase">>
    \o <<"^^^">>
    \o <<"**Step", "2:", "Initialize", "Supabase**">>
    \o <<"^^^bash">>
    \o <<"supabase", "init">>
    \o <<"^^^">>
    \o <<"**Step", "3:", "Deploy", "as", "Edge", "Function**">>
    \o <<"^^^bash">>
    \o <<"supabase", "functions", "deploy", "mcp-server">>
    \o <<"^^^">>
    \o <<"See", "full", "guide:",
         "https://docs.mcp-use.com/typescript/server/deployment/supabase">>

\* The block appended otherwise.
CustomPlatformBlock ==
       <<"##", "Deploy", "to", "Custom", "Platform">>
    \o <<"For", "other", "deployment", "platforms:">>
    \o <<"-", "**Vercel**:", "Use", "^vercel", "deploy^">>
    \o <<"-", "**Netlify**:", "Use", "^netlify", "deploy^">>
    \o <<"-", "**Railway**:", "Use", "^railway", "up^">>
    \o <<"-", "**Docker**:", "Build", "and", "deploy", "container">>
    \o <<"See", "deployment", "docs:",
         "https://docs.mcp-use.com/typescript/server/deployment">>

\* Mutant: the second test is an if of its own, not an else if.
DeployBlockNoElse(platform, packageManager) ==
       (IF platform = Str("mcp-use-cloud")
        THEN McpUseCloudBlock(packageManager) ELSE <<>>)
    \o (IF platform = Str("supabase") THEN SupabaseBlock
        ELSE CustomPlatformBlock)

\* Mutant: the second test compares with a misspelt name.
DeployBlockMisspelt(platform, packageManager) ==
    IF platform = Str("mcp-use-cloud") THEN McpUseCloudBlock(packageManager)
    ELSE IF platform = Str("superbase") THEN SupabaseBlock
    ELSE CustomPlatformBlock

\* Mutant: the block for the other platforms names the build command.
DeployBlockCustomBuild(platform, packageManager) ==
    IF platform = Str("mcp-use-cloud") THEN McpUseCloudBlock(packageManager)
    ELSE IF platform = Str("supabase") THEN SupabaseBlock
    ELSE CustomPlatformBlock \o <<"Build", "first:", "^" \o packageManager,
                                  "run", "build^">>

\* if (platform === "mcp-use-cloud") ... else if (platform === "supabase") ...
\* else ...: the block the chain appends to instructions.
DeployBlock(platform, packageManager) ==
    IF platform = Str("mcp-use-cloud") THEN McpUseCloudBlock(packageManager)
    ELSE IF platform = Str("supabase") THEN SupabaseBlock
    ELSE CustomPlatformBlock

\* Mutant: useYarn is a variable of the module, shared by the two handlers,
\* that keeps what the call before gave it.
DeployServerHandlerSharedUseYarn(args) ==
    LET before == IF latest # [tool |-> "none"] THEN latest ELSE first
        shared ==
            IF /\ before.tool \in {"run-server", "deploy-server"}
               /\ before.args.useYarn.type = "boolean"
            THEN before.args.useYarn
            ELSE Bool(TRUE)
        useYarn == Default(args.useYarn, shared)
        platform == Default(args.platform, Str("mcp-use-cloud"))
        packageManager == DeployPackageManager(useYarn)
        instructions == DeployHeader \o DeployBlock(platform, packageManager)
    IN  text(instructions)

\* Mutant: platform has no default.
DeployServerHandlerNoDefault(args) ==
    LET useYarn == Default(args.useYarn, Bool(TRUE))
        platform == args.platform
        packageManager == DeployPackageManager(useYarn)
        instructions == DeployHeader \o DeployBlock(platform, packageManager)
    IN  text(instructions)

\* Mutant: a platform outside the enumeration is refused.
DeployServerHandlerStrict(args) ==
    LET useYarn == Default(args.useYarn, Bool(TRUE))
        platform == Default(args.platform, Str("mcp-use-cloud"))
        packageManager == DeployPackageManager(useYarn)
        instructions == DeployHeader \o DeployBlock(platform, packageManager)
    IN  IF platform.type = "string" /\ platform.s \in Platforms
        THEN text(instructions)
        ELSE Thrown("ConfigurationError")

\* async ({ useYarn = true, platform = "mcp-use-cloud" }) => { ... }
DeployServerHandler(args) ==
    LET useYarn == Default(args.useYarn, Bool(TRUE))
        platform == Default(args.platform, Str("mcp-use-cloud"))
        packageManager == DeployPackageManager(useYarn)
        instructions == DeployHeader \o DeployBlock(platform, packageManager)
    IN  text(instructions)

---------------------------------------------------------------------------
(* The prompt and the resources.  Their template literals hold no          *)
(* interpolation; each text is written by its first and its last line.     *)

\* A prompt's result: one message of the user, of type text.
messages(t) ==
    [kind |-> "messages",
     messages |-> <<[role |-> "user",
                     content |-> [type |-> "text", text |-> t]]>>]

\* markdown(s), of mcp-use/server: a result of mime type text/markdown.
markdown(s) == [kind |-> "markdown", text |-> s]

\* The text of the prompt how-to-create-mcp-server.
HowToCreateMcpServerText ==
       <<"#", "How", "to", "Create", "an", "MCP", "Server", "with", "mcp-use">>
    \o <<"Happy", "building!", "U+1F680">>

\* Mutant: the prompt names the template its arguments ask for.
HowToCreateMcpServerWithTemplate(arguments) ==
    messages(
           <<"#", "How", "to", "Create", "an", "MCP", "Server", "with",
             "mcp-use">>
        \o (IF arguments.type = "string" THEN <<"Template:", arguments.s>>
            ELSE <<>>)
        \o <<"Happy", "building!", "U+1F680">>)

\* async () => { return { messages: [ ... ] }; }: the arguments are not read.
HowToCreateMcpServer(arguments) == messages(HowToCreateMcpServerText)

\* The text of each resource.
ResourceText(uri) ==
    CASE uri = "mcp-use://examples/tools" ->
               <<"#", "Tools", "Example">>
            \o <<"-", "Keep", "tools", "focused", "on", "a", "single", "task">>
      [] uri = "mcp-use://examples/resources" ->
               <<"#", "Resources", "Example">>
            \o <<"-", "Use", "**resource", "templates**", "for",
                 "parameterized", "URIs">>
      [] uri = "mcp-use://examples/prompts" ->
               <<"#", "Prompts", "Example">>
            \o <<"-", "Include", "**clear", "instructions**", "in", "the",
                 "prompt", "text">>
      [] uri = "mcp-use://examples/widgets" ->
               <<"#", "Widgets", "Example", "(Apps", "SDK)">>
            \o <<"7.", "Test", "widgets", "in", "the", "**Inspector", "UI**">>
      [] uri = "mcp-use://examples/complete-server" ->
               <<"#", "Complete", "MCP", "Server", "Example">>
            \o <<"-", "U+2705", "Clean", "code", "organization">>

\* async () => { return markdown(...); }
ResourceHandler(uri) == markdown(ResourceText(uri))

---------------------------------------------------------------------------
(* The module's top-level statements, in order *)

\* Mutant: a resource copied from the one before it, its uri left as it was.
ProgramCopiedUri == <<
    [op |-> "new",      name |-> "mcp-use"],
    [op |-> "prompt",   name |-> "how-to-create-mcp-server"],
    [op |-> "resource", name |-> "mcp-use://examples/tools"],
    [op |-> "resource", name |-> "mcp-use://examples/resources"],
    [op |-> "resource", name |-> "mcp-use://examples/prompts"],
    [op |-> "resource", name |-> "mcp-use://examples/prompts"],
    [op |-> "resource", name |-> "mcp-use://examples/complete-server"],
    [op |-> "tool",     name |-> "run-server"],
    [op |-> "tool",     name |-> "deploy-server"],
    [op |-> "listen",   name |-> "mcp-use"] >>

\* Mutant: server.listen() called ahead of the tools' registration.
ProgramListenEarly == <<
    [op |-> "new",      name |-> "mcp-use"],
    [op |-> "prompt",   name |-> "how-to-create-mcp-server"],
    [op |-> "resource", name |-> "mcp-use://examples/tools"],
    [op |-> "resource", name |-> "mcp-use://examples/resources"],
    [op |-> "resource", name |-> "mcp-use://examples/prompts"],
    [op |-> "resource", name |-> "mcp-use://examples/widgets"],
    [op |-> "resource", name |-> "mcp-use://examples/complete-server"],
    [op |-> "listen",   name |-> "mcp-use"],
    [op |-> "tool",     name |-> "run-server"],
    [op |-> "tool",     name |-> "deploy-server"] >>

Program == <<
    [op |-> "new",      name |-> "mcp-use"],
    [op |-> "prompt",   name |-> "how-to-create-mcp-server"],
    [op |-> "resource", name |-> "mcp-use://examples/tools"],
    [op |-> "resource", name |-> "mcp-use://examples/resources"],
    [op |-> "resource", name |-> "mcp-use://examples/prompts"],
    [op |-> "resource", name |-> "mcp-use://examples/widgets"],
    [op |-> "resource", name |-> "mcp-use://examples/complete-server"],
    [op |-> "tool",     name |-> "run-server"],
    [op |-> "tool",     name |-> "deploy-server"],
    [op |-> "listen",   name |-> "mcp-use"] >>

\* The statement at pc is an op.
At(op) == pc \in DOMAIN Program /\ Program[pc].op = op

\* The values process.env.MCP_URL may hold when the module loads.
EnvInputs == {Undefined, Str(""), Str("https://mcp-use.com")}

\* baseUrl: process.env.MCP_URL || "http://localhost:3000"
BaseUrl(mcpUrl) == IF Truthy(mcpUrl) THEN mcpUrl.s ELSE "http://localhost:3000"

\* const server = new MCPServer({ ... })
Construct ==
    /\ At("new")
    /\ baseUrl' = BaseUrl(env)
    /\ pc' = pc + 1
    /\ UNCHANGED <<env, prompts, resources, tools, listening, listens,
                   first, latest, between>>
    /\ UNCHANGED composeVars

\* server.prompt({ name: ... }, handler)
RegisterPrompt ==
    /\ At("prompt")
    /\ prompts' = Append(prompts, Program[pc].name)
    /\ pc' = pc + 1
    /\ UNCHANGED <<env, baseUrl, resources, tools, listening, listens,
                   first, latest, between>>
    /\ UNCHANGED composeVars

\* server.resource({ uri: ... }, handler)
RegisterResource ==
    /\ At("resource")
    /\ resources' = Append(resources, Program[pc].name)
    /\ pc' = pc + 1
    /\ UNCHANGED <<env, baseUrl, prompts, tools, listening, listens,
                   first, latest, between>>
    /\ UNCHANGED composeVars

\* server.tool({ name: ..., schema: ... }, handler)
RegisterTool ==
    /\ At("tool")
    /\ tools' = Append(tools, Program[pc].name)
    /\ pc' = pc + 1
    /\ UNCHANGED <<env, baseUrl, prompts, resources, listening, listens,
                   first, latest, between>>
    /\ UNCHANGED composeVars

\* server.listen()
Listen ==
    /\ At("listen")
    /\ listening' = TRUE
    /\ listens' = listens + 1
    /\ pc' = pc + 1
    /\ UNCHANGED <<env, baseUrl, prompts, resources, tools, first, latest,
                   between>>
    /\ UNCHANGED composeVars

---------------------------------------------------------------------------
(* Requests *)

\* What a field may hold: absent, of the schema's type, or of another.
UseYarnValues == {Undefined, Bool(TRUE), Bool(FALSE), Str("yes")}

PortValues ==
    {Undefined, Num(3000), Num(8080), Num(1), Num(0), Num(-1), NumT(1, 5),
     Str("8080")}

PlatformValues ==
    {Undefined, Str("mcp-use-cloud"), Str("supabase"), Str("other"),
     Str("vercel"), Num(1)}

\* Parameter objects of any content.
RunServerParams == [useYarn : UseYarnValues, port : PortValues]

DeployServerParams == [useYarn : UseYarnValues, platform : PlatformValues]

\* The arguments a client sends: every combination of well-typed fields, and
\* one request for each way a field is ill typed.
RunServerInputs ==
    [useYarn : {Undefined, Bool(TRUE), Bool(FALSE)},
     port : {Undefined, Num(3000), Num(8080), Num(0), Num(-1), NumT(1, 5)}]
        \cup {[useYarn |-> Str("yes"), port |-> Undefined],
              [useYarn |-> Undefined, port |-> Str("8080")]}

DeployServerInputs ==
    [useYarn : {Undefined, Bool(TRUE), Bool(FALSE)},
     platform : {Undefined, Str("mcp-use-cloud"), Str("supabase"),
                 Str("other")}]
        \cup {[useYarn |-> Str("yes"), platform |-> Undefined],
              [useYarn |-> Undefined, platform |-> Str("vercel")],
              [useYarn |-> Undefined, platform |-> Num(1)]}

\* Is name a registered tool ?
Registered(name) == \E i \in DOMAIN tools : tools[i] = name

\* A call of run-server: the arguments are parsed by the tool's schema, and
\* the handler runs on what parsed.
RunServerTool(args) ==
    IF RunServerSchema(args) THEN RunServerHandler(args) ELSE InvalidParams

\* A call of deploy-server.
DeployServerTool(args) ==
    IF DeployServerSchema(args) THEN DeployServerHandler(args)
    ELSE InvalidParams

\* What a client may send as the arguments of a prompt.
PromptArguments == {Undefined, Str("starter"), Str("apps-sdk")}

\* Is name a registered prompt ?  Is uri a registered resource ?
RegisteredPrompt(name) == \E i \in DOMAIN prompts : prompts[i] = name

RegisteredResource(uri) == \E i \in DOMAIN resources : resources[i] = uri

\* No call.
NoCall == [tool |-> "none"]

\* The calls the history holds.
Calls == {first, latest} \ {NoCall}

\* A call is served with a result: the history keeps the first call and the
\* latest, and whether others came between them.
Served(tool, args, result) ==
    /\ LET call == [tool |-> tool, args |-> args, result |-> result,
                    baseUrl |-> baseUrl]
       IN  IF first = NoCall
           THEN first' = call /\ UNCHANGED <<latest, between>>
           ELSE /\ latest' = call
                /\ between' = (latest # NoCall)
                /\ UNCHANGED first
    /\ UNCHANGED <<pc, env, baseUrl, prompts, resources, tools, listening,
                   listens>>
    /\ UNCHANGED composeVars

CallRunServer ==
    /\ listening
    /\ Registered("run-server")
    /\ \E args \in RunServerInputs :
          Served("run-server", args, RunServerTool(args))

CallDeployServer ==
    /\ listening
    /\ Registered("deploy-server")
    /\ \E args \in DeployServerInputs :
          Served("deploy-server", args, DeployServerTool(args))

\* prompts/get of how-to-create-mcp-server.
GetPrompt ==
    /\ listening
    /\ RegisteredPrompt("how-to-create-mcp-server")
    /\ \E arguments \in PromptArguments :
          Served("how-to-create-mcp-server", [arguments |-> arguments],
                 HowToCreateMcpServer(arguments))

\* resources/read of a registered resource.
ReadResource ==
    /\ listening
    /\ \E i \in DOMAIN resources :
          Served(resources[i], [uri |-> resources[i]],
                 ResourceHandler(resources[i]))

---------------------------------------------------------------------------
(* The server *)

NoInput == [kind |-> "none"]

Init ==
    /\ pc = 1
    /\ env \in EnvInputs
    /\ baseUrl = ""
    /\ prompts = <<>>
    /\ resources = <<>>
    /\ tools = <<>>
    /\ listening = FALSE
    /\ listens = 0
    /\ first = NoCall
    /\ latest = NoCall
    /\ between = FALSE
    /\ composeIn = NoInput
    /\ composeOut = NoResult

Next ==
    \/ Construct
    \/ RegisterPrompt
    \/ RegisterResource
    \/ RegisterTool
    \/ Listen
    \/ CallRunServer
    \/ CallDeployServer
    \/ GetPrompt
    \/ ReadResource

Spec == Init /\ [][Next]_vars

\* The statements of the module run one after the other as the module loads,
\* with nothing to wait for: the load goes on to its last statement.
Load ==
    \/ Construct
    \/ RegisterPrompt
    \/ RegisterResource
    \/ RegisterTool
    \/ Listen

SpecLoad == Spec /\ WF_vars(Load)

\* The process ends and the module is loaded again, under an MCP_URL of its
\* own: another server.  The history of calls is the observer's, and stays.
Restart ==
    /\ listening
    /\ latest = NoCall
    /\ env' \in EnvInputs
    /\ pc' = 1
    /\ baseUrl' = ""
    /\ prompts' = <<>>
    /\ resources' = <<>>
    /\ tools' = <<>>
    /\ listening' = FALSE
    /\ listens' = 0
    /\ UNCHANGED <<first, latest, between>>
    /\ UNCHANGED composeVars

NextRestart ==
    \/ Next
    \/ Restart

SpecRestart == Init /\ [][NextRestart]_vars

---------------------------------------------------------------------------
(* The handlers as functions: each applied to parameters that did not pass *)
(* through a schema *)

ComposeInputs ==
    {[kind |-> "run", params |-> a] : a \in RunServerParams}
        \cup {[kind |-> "deploy", params |-> a] : a \in DeployServerParams}

ComposeRun ==
    /\ composeIn.kind = "run"
    /\ composeOut = NoResult
    /\ composeOut' = RunServerHandler(composeIn.params)
    /\ UNCHANGED composeIn
    /\ UNCHANGED serverVars

ComposeDeploy ==
    /\ composeIn.kind = "deploy"
    /\ composeOut = NoResult
    /\ composeOut' = DeployServerHandler(composeIn.params)
    /\ UNCHANGED composeIn
    /\ UNCHANGED serverVars

InitCompose ==
    /\ pc = 1
    /\ env = Undefined
    /\ baseUrl = ""
    /\ prompts = <<>>
    /\ resources = <<>>
    /\ tools = <<>>
    /\ listening = FALSE
    /\ listens = 0
    /\ first = NoCall
    /\ latest = NoCall
    /\ between = FALSE
    /\ composeIn \in ComposeInputs
    /\ composeOut = NoResult

NextCompose ==
    \/ ComposeRun
    \/ ComposeDeploy

SpecCompose == InitCompose /\ [][NextCompose]_vars

---------------------------------------------------------------------------
(* The vocabulary of the properties *)

\* The text t holds the token tok.
Contains(t, tok) == \E i \in DOMAIN t : t[i] = tok

\* The places of text t where the tokens of phrase p follow one another.
Places(t, p) ==
    {i \in 1..(Len(t) - Len(p) + 1) : SubSeq(t, i, i + Len(p) - 1) = p}

\* The text t holds the phrase p.
ContainsPhrase(t, p) == Places(t, p) # {}

IsInteger(v) == v.type = "number" /\ v.tenths = 0

IsPositive(v) ==
    v.type = "number" /\ (v.int > 0 \/ (v.int = 0 /\ v.tenths > 0))

\* A valid RunRequest: useYarn a boolean, port a positive integer.
ValidRunRequest(args) ==
    /\ args.useYarn.type = "boolean"
    /\ IsInteger(args.port)
    /\ IsPositive(args.port)

\* A RunRequest each field of which is valid or omitted; a port is any number.
RunRequestWithOmissions(args) ==
    /\ args.useYarn.type \in {"undefined", "boolean"}
    /\ args.port.type \in {"undefined", "number"}

\* A valid DeployRequest: useYarn a boolean, platform one of the three.
ValidDeployRequest(args) ==
    /\ args.useYarn.type = "boolean"
    /\ args.platform \in {Str("mcp-use-cloud"), Str("supabase"), Str("other")}

\* The token useYarn resolves to.
Token(useYarn) == IF useYarn = Bool(TRUE) THEN "yarn" ELSE "npm"

\* The decimal literal of the ports the requests carry.
PortLiteral(port) ==
    CASE port = Num(3000) -> "3000"
      [] port = Num(8080) -> "8080"
      [] port = Num(1)    -> "1"

\* The heading that opens each platform's block of instructions.
BlockHeading(platform) ==
    CASE platform = "mcp-use-cloud" ->
            <<"##", "Deploy", "to", "mcp-use", "Cloud", "(Recommended)">>
      [] platform = "supabase" -> <<"##", "Deploy", "to", "Supabase">>
      [] platform = "other" -> <<"##", "Deploy", "to", "Custom", "Platform">>

\* How many platform blocks the text t holds.
BlockCount(t) ==
    Cardinality({<<b, i>> \in
        {"mcp-use-cloud", "supabase", "other"} \X (1..Len(t)) :
            i \in Places(t, BlockHeading(b))})

RunCalls == {c \in Calls : c.tool = "run-server"}

DeployCalls == {c \in Calls : c.tool = "deploy-server"}

---------------------------------------------------------------------------
(* run-server *)

\* C1: for every valid RunRequest, the text run-server returns holds the token
\* "yarn" if and only if useYarn is true, and otherwise holds the token "npm"
\* and never "yarn".
C1_YarnIffUseYarn ==
    \A c \in RunCalls :
        ValidRunRequest(c.args) =>
            /\ c.result.kind = "text"
            /\ Contains(c.result.text, "yarn") <=> (c.args.useYarn = Bool(TRUE))
            /\ (c.args.useYarn = Bool(FALSE)) =>
                  /\ Contains(c.result.text, "npm")
                  /\ ~Contains(c.result.text, "yarn")

\* A valid request with useYarn true and one with useYarn false were served.
C1_Witness ==
    /\ \E c \in RunCalls :
          /\ ValidRunRequest(c.args)
          /\ c.args.useYarn = Bool(TRUE)
          /\ c.result.kind = "text"
          /\ Contains(c.result.text, "yarn")
    /\ \E c \in RunCalls :
          /\ ValidRunRequest(c.args)
          /\ c.args.useYarn = Bool(FALSE)
          /\ c.result.kind = "text"
          /\ Contains(c.result.text, "npm")

\* C2: for every valid RunRequest, the "With custom port" section of the
\* output reads "PORT=<port> <packageManager> start", with the port requested
\* and the token useYarn resolves to.
C2_CustomPortSection ==
    \A c \in RunCalls :
        ValidRunRequest(c.args) =>
            /\ c.result.kind = "text"
            /\ ContainsPhrase(c.result.text,
                  <<"**With", "custom", "port:**", "^^^bash",
                    "PORT=" \o PortLiteral(c.args.port),
                    Token(c.args.useYarn), "start", "^^^">>)

\* A valid request for a port other than the default was served.
C2_Witness ==
    \E c \in RunCalls :
        /\ ValidRunRequest(c.args)
        /\ c.args.port = Num(8080)
        /\ c.result.kind = "text"
        /\ ContainsPhrase(c.result.text, <<"**With", "custom", "port:**">>)

\* C4: run-server called with fields omitted returns what it returns with the
\* defaults given: run({}) is run({useYarn: true, port: 3000}), and a request
\* that omits one field is the request that gives that field its default.
C4_RunDefaults ==
    \A c1 \in RunCalls : \A c2 \in RunCalls :
        ( /\ RunRequestWithOmissions(c1.args)
          /\ c2.args = [useYarn |-> IF c1.args.useYarn = Undefined
                                    THEN Bool(TRUE) ELSE c1.args.useYarn,
                        port    |-> IF c1.args.port = Undefined
                                    THEN Num(3000) ELSE c1.args.port] )
        => (c1.result.kind = "text" /\ c1.result = c2.result)

\* run({}) and run({useYarn: true, port: 3000}) were both served.
C4_Witness ==
    /\ first.tool = "run-server"
    /\ latest.tool = "run-server"
    /\ first.args = [useYarn |-> Undefined, port |-> Undefined]
    /\ latest.args = [useYarn |-> Bool(TRUE), port |-> Num(3000)]
    /\ first.result.kind = "text"
    /\ latest.result = first.result

\* C7: run-server called with useYarn false and port 8080 returns text that
\* holds "npm run dev", "npm start" and "PORT=8080 npm start", and nowhere the
\* token "yarn".
C7_NpmOn8080 ==
    \A c \in RunCalls :
        (c.args = [useYarn |-> Bool(FALSE), port |-> Num(8080)]) =>
            /\ c.result.kind = "text"
            /\ ContainsPhrase(c.result.text, <<"npm", "run", "dev">>)
            /\ ContainsPhrase(c.result.text, <<"npm", "start">>)
            /\ ContainsPhrase(c.result.text, <<"PORT=8080", "npm", "start">>)
            /\ ~Contains(c.result.text, "yarn")

\* run({useYarn: false, port: 8080}) was served.
C7_Witness ==
    \E c \in RunCalls :
        /\ c.args = [useYarn |-> Bool(FALSE), port |-> Num(8080)]
        /\ c.result.kind = "text"
        /\ Len(c.result.text) > 0

---------------------------------------------------------------------------
(* deploy-server *)

\* C3: for each of the three platforms, deploy-server emits exactly one of the
\* three blocks of instructions, and it is the block of the platform asked for.
C3_ExactlyOneBlock ==
    \A c \in DeployCalls :
        ( /\ c.args.useYarn.type \in {"undefined", "boolean"}
          /\ c.args.platform \in
                {Str("mcp-use-cloud"), Str("supabase"), Str("other")} )
        => /\ c.result.kind = "text"
           /\ BlockCount(c.result.text) = 1
           /\ ContainsPhrase(c.result.text, BlockHeading(c.args.platform.s))

\* A request for supabase and one for other were served, each with a block.
C3_Witness ==
    /\ first.tool = "deploy-server"
    /\ latest.tool = "deploy-server"
    /\ first.args.platform = Str("supabase")
    /\ latest.args.platform = Str("other")
    /\ first.result.kind = "text"
    /\ latest.result.kind = "text"
    /\ BlockCount(first.result.text) = 1
    /\ BlockCount(latest.result.text) = 1

\* C5: deploy-server called with fields omitted returns what it returns with
\* the defaults given: deploy({}) is deploy({useYarn: true, platform:
\* mcp-use-cloud}), so an omitted platform selects the mcp-use-cloud block.
C5_DeployDefaults ==
    \A c1 \in DeployCalls : \A c2 \in DeployCalls :
        ( /\ c1.args.useYarn.type \in {"undefined", "boolean"}
          /\ c1.args.platform = Undefined
             \/ c1.args.platform \in
                   {Str("mcp-use-cloud"), Str("supabase"), Str("other")}
          /\ c2.args = [useYarn  |-> IF c1.args.useYarn = Undefined
                                     THEN Bool(TRUE) ELSE c1.args.useYarn,
                        platform |-> IF c1.args.platform = Undefined
                                     THEN Str("mcp-use-cloud")
                                     ELSE c1.args.platform] )
        => /\ c1.result.kind = "text"
           /\ c1.result = c2.result
           /\ (c1.args.platform = Undefined) =>
                 ContainsPhrase(c1.result.text, BlockHeading("mcp-use-cloud"))

\* deploy({}) and deploy({useYarn: true, platform: mcp-use-cloud}) were both
\* served.
C5_Witness ==
    /\ first.tool = "deploy-server"
    /\ latest.tool = "deploy-server"
    /\ first.args = [useYarn |-> Undefined, platform |-> Undefined]
    /\ latest.args = [useYarn |-> Bool(TRUE), platform |-> Str("mcp-use-cloud")]
    /\ first.result.kind = "text"
    /\ latest.result = first.result

\* C8: deploy-server called with platform supabase, for either value of
\* useYarn, returns the Supabase instructions and not the login instruction
\* of mcp-use cloud, "npx mcp-use login".
C8_SupabaseOnly ==
    \A c \in DeployCalls :
        ( /\ c.args.useYarn.type = "boolean"
          /\ c.args.platform = Str("supabase") )
        => /\ c.result.kind = "text"
           /\ ContainsPhrase(c.result.text, BlockHeading("supabase"))
           /\ ContainsPhrase(c.result.text,
                 <<"npm", "install", "-g", "supabase">>)
           /\ ContainsPhrase(c.result.text, <<"supabase", "init">>)
           /\ ContainsPhrase(c.result.text,
                 <<"supabase", "functions", "deploy", "mcp-server">>)
           /\ ~ContainsPhrase(c.result.text, <<"npx", "mcp-use", "login">>)

\* Supabase was asked for with useYarn true and with useYarn false.
C8_Witness ==
    /\ first.tool = "deploy-server"
    /\ latest.tool = "deploy-server"
    /\ first.args = [useYarn |-> Bool(TRUE), platform |-> Str("supabase")]
    /\ latest.args = [useYarn |-> Bool(FALSE), platform |-> Str("supabase")]
    /\ first.result.kind = "text"
    /\ latest.result.kind = "text"

\* C10, as claimed: for every valid DeployRequest, the output of deploy-server
\* holds the token useYarn resolves to.
C10_TokenOnEveryPlatform ==
    \A c \in DeployCalls :
        ValidDeployRequest(c.args) =>
            /\ c.result.kind = "text"
            /\ Contains(c.result.text, Token(c.args.useYarn))

\* C10, amended: for every valid DeployRequest for mcp-use-cloud, the output
\* of deploy-server holds the token useYarn resolves to, in "<token> run
\* deploy", and not the other token.
C10_TokenOnMcpUseCloud ==
    \A c \in DeployCalls :
        ( /\ ValidDeployRequest(c.args)
          /\ c.args.platform = Str("mcp-use-cloud") )
        => /\ c.result.kind = "text"
           /\ ContainsPhrase(c.result.text,
                 <<Token(c.args.useYarn), "run", "deploy">>)
           /\ ~Contains(c.result.text,
                 Token(IF c.args.useYarn = Bool(TRUE)
                       THEN Bool(FALSE) ELSE Bool(TRUE)))

\* mcp-use-cloud was asked for with useYarn true and with useYarn false.
C10_Witness ==
    /\ first.tool = "deploy-server"
    /\ latest.tool = "deploy-server"
    /\ first.args = [useYarn |-> Bool(TRUE), platform |-> Str("mcp-use-cloud")]
    /\ latest.args =
          [useYarn |-> Bool(FALSE), platform |-> Str("mcp-use-cloud")]
    /\ Contains(first.result.text, "yarn")
    /\ Contains(latest.result.text, "npm")

---------------------------------------------------------------------------
(* Both tools *)

\* C6: two calls of the same tool with the same input return the same output,
\* whatever calls were served between them.
C6_Deterministic ==
    \A c1 \in Calls : \A c2 \in Calls :
        (c1.tool = c2.tool /\ c1.args = c2.args) => c1.result = c2.result

\* The same input was served twice, with other calls between, and returned
\* text.
C6_Witness ==
    /\ first # NoCall
    /\ latest # NoCall
    /\ between
    /\ first.tool = latest.tool
    /\ first.args = latest.args
    /\ first.result.kind = "text"
    /\ latest.result = first.result

---------------------------------------------------------------------------
(* The deploy handler outside its schema *)

\* The handler was applied to a platform outside the enumeration.
OutsideEnumeration ==
    /\ composeIn.kind = "deploy"
    /\ composeIn.params.platform # Undefined
    /\ composeIn.params.platform \notin
          {Str("mcp-use-cloud"), Str("supabase"), Str("other")}
    /\ composeOut # NoResult

---------------------------------------------------------------------------
(* Totality *)

\* An input of the validated domain of run-server: useYarn a boolean, port a
\* positive integer, either omitted.
InRunDomain(args) ==
    /\ args.useYarn.type \in {"undefined", "boolean"}
    /\ args.port = Undefined \/ (IsInteger(args.port) /\ IsPositive(args.port))

\* An input of the validated domain of deploy-server.
InDeployDomain(args) ==
    /\ args.useYarn.type \in {"undefined", "boolean"}
    /\ args.platform \in
          {Undefined, Str("mcp-use-cloud"), Str("supabase"), Str("other")}

\* C11: for every input of the validated domain, fields omitted or not,
\* run-server and deploy-server complete and return text; none ends in an
\* error.
C11_Total ==
    /\ \A c \in RunCalls :
          InRunDomain(c.args) =>
              (c.result.kind = "text" /\ Len(c.result.text) > 0)
    /\ \A c \in DeployCalls :
          InDeployDomain(c.args) =>
              (c.result.kind = "text" /\ Len(c.result.text) > 0)

\* run-server with every field omitted and deploy-server with every field
\* omitted were served, and returned text.
C11_Witness ==
    /\ first.tool = "run-server"
    /\ latest.tool = "deploy-server"
    /\ first.args = [useYarn |-> Undefined, port |-> Undefined]
    /\ latest.args = [useYarn |-> Undefined, platform |-> Undefined]
    /\ first.result.kind = "text"
    /\ latest.result.kind = "text"

---------------------------------------------------------------------------
(* Independence *)

\* The step serves a call.
Serving == first' # first \/ latest' # latest \/ between' # between

\* C12: in any sequence of run-server and deploy-server calls, a call writes
\* nothing another call reads (the server and the record of the first call
\* are left as they were), and its result is the result the same call has
\* when it runs alone, as the first call of the server.
C12_Independent ==
    [][ Serving =>
          /\ UNCHANGED <<pc, env, baseUrl, prompts, resources, tools,
                         listening, listens>>
          /\ (first # NoCall) => (first' = first)
          /\ ( /\ first # NoCall
               /\ latest'.tool \in {"run-server", "deploy-server"}
               /\ latest'.tool = first.tool
               /\ latest'.args = first.args )
             => (latest'.result = first.result) ]_vars

\* deploy-server ran alone with useYarn omitted, other calls followed, and the
\* same call then returned the same text.
C12_Witness ==
    /\ first.tool = "deploy-server"
    /\ latest.tool = "deploy-server"
    /\ between
    /\ first.args.useYarn = Undefined
    /\ latest.args = first.args
    /\ first.result.kind = "text"
    /\ latest.result = first.result

---------------------------------------------------------------------------
(* What the server exposes *)

\* The elements of a sequence.
Range(q) == {q[i] : i \in DOMAIN q}

\* No element of the sequence occurs twice.
Distinct(q) == \A i \in DOMAIN q : \A j \in DOMAIN q : (q[i] = q[j]) => (i = j)

\* C13: once started, the server exposes exactly one prompt, exactly five
\* resources and exactly two tools, those the README lists, and all their
\* names and uris are pairwise distinct.
C13_Exposed ==
    listening =>
        /\ prompts = <<"how-to-create-mcp-server">>
        /\ Len(resources) = 5
        /\ Range(resources) =
              {"mcp-use://examples/tools", "mcp-use://examples/resources",
               "mcp-use://examples/prompts", "mcp-use://examples/widgets",
               "mcp-use://examples/complete-server"}
        /\ Len(tools) = 2
        /\ Range(tools) = {"run-server", "deploy-server"}
        /\ Distinct(prompts \o resources \o tools)

\* The server has started, with its registrations made.
C13_Witness ==
    /\ listening
    /\ Len(prompts) = 1
    /\ Len(resources) = 5
    /\ Len(tools) = 2

---------------------------------------------------------------------------
(* The prompt and the resources are constant *)

\* The calls of the prompt and of the resources.
ConstantCalls == {c \in Calls : c.tool \notin {"run-server", "deploy-server"}}

\* C14: the prompt how-to-create-mcp-server and each of the five resources
\* return the same text for every request, whatever its arguments and
\* whatever was requested before; only run-server and deploy-server compose
\* their output from the request.
C14_ConstantText ==
    /\ \A c \in ConstantCalls :
          /\ c.result.kind =
                (IF c.tool = "how-to-create-mcp-server" THEN "messages"
                 ELSE "markdown")
    /\ \A c1 \in ConstantCalls : \A c2 \in ConstantCalls :
          (c1.tool = c2.tool) => (c1.result = c2.result)

\* The prompt was requested without arguments and then, after other calls,
\* with an argument.
C14_Witness ==
    /\ first.tool = "how-to-create-mcp-server"
    /\ latest.tool = "how-to-create-mcp-server"
    /\ between
    /\ first.args.arguments = Undefined
    /\ latest.args.arguments = Str("starter")
    /\ first.result.kind = "messages"
    /\ latest.result = first.result

---------------------------------------------------------------------------
(* The sections and the ports of run-server's output *)

\* The token a RunRequest resolves to, useYarn given or omitted.
RunToken(args) == IF args.useYarn = Bool(FALSE) THEN "npm" ELSE "yarn"

\* Some place of phrase p in text t is before some place of phrase q.
Before(t, p, q) == \E i \in Places(t, p) : \E j \in Places(t, q) : i < j

\* C15: for every RunRequest, the output of run-server has its three topics:
\* the development command "<pm> run dev", the production commands "<pm> run
\* build" and then "<pm> start", and the tunneling instructions.
C15_ThreeTopics ==
    \A c \in RunCalls :
        RunRequestWithOmissions(c.args) =>
            /\ c.result.kind = "text"
            /\ LET t == c.result.text
                   pm == RunToken(c.args)
               IN  /\ ContainsPhrase(t,
                         <<"**Development", "mode", "(with", "hot",
                           "reload):**", "^^^bash", pm, "run", "dev">>)
                   /\ ContainsPhrase(t,
                         <<"**Production", "mode:**", "^^^bash", "#", "First",
                           "build", pm, "run", "build">>)
                   /\ Before(t, <<pm, "run", "build">>,
                             <<"#", "Then", "start", pm, "start">>)
                   /\ ContainsPhrase(t,
                         <<"**Test", "with", "tunneling", "(before",
                           "deployment):**">>)
                   /\ Before(t, <<"**Test", "with", "tunneling">>,
                             <<"mcp-use", "start", "--port">>)
                   /\ Contains(t, "--tunnel")
                   /\ ContainsPhrase(t, <<"npx", "@mcp-use/tunnel">>)

\* run-server was asked for npm on a port that is not the default, and
\* returned its text.
C15_Witness ==
    \E c \in RunCalls :
        /\ c.args = [useYarn |-> Bool(FALSE), port |-> Num(-1)]
        /\ c.result.kind = "text"
        /\ ContainsPhrase(c.result.text, <<"npm", "run", "build">>)

\* The decimal literal of the port a RunRequest asks for, 3000 when omitted.
RunPortLiteral(args) ==
    CASE args.port = Undefined  -> "3000"
      [] args.port = Num(3000)  -> "3000"
      [] args.port = Num(8080)  -> "8080"
      [] args.port = Num(1)     -> "1"
      [] args.port = Num(0)     -> "0"
      [] args.port = Num(-1)    -> "-1"
      [] args.port = NumT(1, 5) -> "1.5"

PortLiterals == {"3000", "8080", "1", "0", "-1", "1.5"}

\* The text t carries port literal p at one of the five places of a port.
CarriesPort(t, p) ==
    \/ Contains(t, "PORT=" \o p)
    \/ ContainsPhrase(t, <<"--port", p>>)
    \/ ContainsPhrase(t, <<"@mcp-use/tunnel", p>>)
    \/ Contains(t, "http://localhost:" \o p \o "/mcp")
    \/ Contains(t, "http://localhost:" \o p \o "/inspector")

\* C19: the output of run-server carries one port at every place of a port:
\* "PORT=<port>", "mcp-use start --port <port> --tunnel", "npx
\* @mcp-use/tunnel <port>", "http://localhost:<port>/mcp" and
\* "http://localhost:<port>/inspector" all carry the port requested, 3000 when
\* omitted, and no place carries another port.
C19_OnePort ==
    \A c \in RunCalls :
        RunRequestWithOmissions(c.args) =>
            /\ c.result.kind = "text"
            /\ LET t == c.result.text
                   p == RunPortLiteral(c.args)
               IN  /\ Contains(t, "PORT=" \o p)
                   /\ ContainsPhrase(t,
                         <<"mcp-use", "start", "--port", p, "--tunnel">>)
                   /\ ContainsPhrase(t, <<"npx", "@mcp-use/tunnel", p>>)
                   /\ Contains(t, "http://localhost:" \o p \o "/mcp")
                   /\ Contains(t, "http://localhost:" \o p \o "/inspector")
                   /\ \A q \in PortLiterals \ {p} : ~CarriesPort(t, q)

\* run-server was asked for port 8080 and for no port, and returned text both
\* times.
C19_Witness ==
    /\ first.tool = "run-server"
    /\ latest.tool = "run-server"
    /\ first.args.port = Num(8080)
    /\ latest.args.port = Undefined
    /\ first.result.kind = "text"
    /\ latest.result.kind = "text"
    /\ CarriesPort(first.result.text, "8080")
    /\ CarriesPort(latest.result.text, "3000")

---------------------------------------------------------------------------
(* The base URL *)

ToolCalls == {c \in Calls : c.tool \in {"run-server", "deploy-server"}}

\* C16: MCP_URL is read when the server is constructed and at no other step,
\* the base URL is MCP_URL or "http://localhost:3000" from then on, and it has
\* no part in the output of the tools: two servers with different base URLs
\* return the same result of run-server and of deploy-server for the same
\* request.
C16_BaseUrlApart ==
    /\ [](pc > 1 => baseUrl = BaseUrl(env))
    /\ [](\A c1, c2 \in ToolCalls :
             (c1.tool = c2.tool /\ c1.args = c2.args
                 /\ c1.baseUrl # c2.baseUrl) => c1.result = c2.result)
    /\ [][baseUrl' # baseUrl => (pc = 1 \/ pc' = 1)]_vars

\* Two servers of different base URLs were each asked for the same run-server
\* request, and each returned text.
C16_Witness ==
    /\ first.tool = "run-server"
    /\ latest.tool = "run-server"
    /\ first.args = latest.args
    /\ first.baseUrl = "http://localhost:3000"
    /\ latest.baseUrl = "https://mcp-use.com"
    /\ first.result.kind = "text"
    /\ latest.result.kind = "text"

---------------------------------------------------------------------------
(* The ports that reach the handler of run-server *)

\* C17: every port that reaches the handler of run-server is a positive
\* integer: whenever run-server answered a request that gives a port with its
\* text, the port is an integer above zero.
C17_PositiveIntegerPort ==
    \A c \in RunCalls :
        (c.result.kind = "text" /\ c.args.port # Undefined) =>
            IsInteger(c.args.port) /\ IsPositive(c.args.port)

---------------------------------------------------------------------------
(* What useYarn changes in the output of deploy-server *)

\* The places where two texts of one length differ.
DiffPlaces(t1, t2) == {i \in 1..Len(t1) : t1[i] # t2[i]}

\* C18: of two deploy-server requests for one platform, one with useYarn true
\* and one with useYarn false, the outputs are the same text for supabase and
\* for other; for mcp-use-cloud (named or by default) they have the same
\* length and differ at exactly two places, the first token of the two
\* "<pm> run deploy" commands, "yarn" in the one and "npm" in the other.
C18_UseYarnOnCloudOnly ==
    \A c1, c2 \in DeployCalls :
        (/\ c1.args.useYarn = Bool(TRUE)
         /\ c2.args.useYarn = Bool(FALSE)
         /\ c1.args.platform = c2.args.platform
         /\ c1.args.platform \in
               {Undefined, Str("mcp-use-cloud"), Str("supabase"), Str("other")})
        => /\ c1.result.kind = "text"
           /\ c2.result.kind = "text"
           /\ LET t1 == c1.result.text
                  t2 == c2.result.text
              IN  IF c1.args.platform \in {Str("supabase"), Str("other")}
                  THEN t1 = t2
                  ELSE /\ Len(t1) = Len(t2)
                       /\ Cardinality(DiffPlaces(t1, t2)) = 2
                       /\ DiffPlaces(t1, t2)
                             = Places(t1, <<"yarn", "run", "deploy">>)
                       /\ DiffPlaces(t1, t2)
                             = Places(t2, <<"npm", "run", "deploy">>)

\* deploy-server was asked for platform other with useYarn true and with
\* useYarn false, and returned one text for both.
C18_Witness ==
    /\ first.tool = "deploy-server"
    /\ latest.tool = "deploy-server"
    /\ first.args = [useYarn |-> Bool(TRUE), platform |-> Str("other")]
    /\ latest.args = [useYarn |-> Bool(FALSE), platform |-> Str("other")]
    /\ first.result.kind = "text"
    /\ first.result = latest.result

\* deploy-server was asked for mcp-use-cloud with useYarn true and with useYarn
\* false, and the two texts differ.
C18_WitnessCloud ==
    /\ first.tool = "deploy-server"
    /\ latest.tool = "deploy-server"
    /\ first.args = [useYarn |-> Bool(TRUE), platform |-> Str("mcp-use-cloud")]
    /\ latest.args =
          [useYarn |-> Bool(FALSE), platform |-> Str("mcp-use-cloud")]
    /\ first.result.kind = "text"
    /\ latest.result.kind = "text"
    /\ first.result # latest.result

---------------------------------------------------------------------------
(* Start-up *)

\* The prompt, the five resources and the two tools are registered.
AllRegistered ==
    /\ Len(prompts) = Cardinality({i \in DOMAIN Program :
                                      Program[i].op = "prompt"})
    /\ Len(resources) = Cardinality({i \in DOMAIN Program :
                                        Program[i].op = "resource"})
    /\ Len(tools) = Cardinality({i \in DOMAIN Program :
                                    Program[i].op = "tool"})
    /\ Len(prompts) = 1
    /\ Len(resources) = 5
    /\ Len(tools) = 2

\* C20: the server comes to listen, and listens exactly once; it listens only
\* once the prompt, the five resources and the two tools are registered; a
\* request is served only by a listening server with all of them registered;
\* and once the server listens, it goes on listening and no registration is
\* added or removed.
C20_StartUpOrder ==
    /\ <>listening
    /\ [](listens <= 1 /\ (listening <=> listens = 1))
    /\ [](listening => AllRegistered)
    /\ [](Calls # {} => listening /\ AllRegistered)
    /\ [][Serving => listening /\ AllRegistered]_vars
    /\ [][listening =>
            /\ listening'
            /\ UNCHANGED <<prompts, resources, tools, listens>>]_vars

\* The server listens with everything registered and has served a request.
C20_Witness ==
    /\ listening
    /\ listens = 1
    /\ AllRegistered
    /\ pc = Len(Program) + 1
    /\ first # NoCall

=============================================================================
